---- MODULE Spec2Model ----
(***************************************************************************)
(* The V2-to-V3 shim of libbuildpack: Finalizer.Finalize                   *)
(* (shims/finalizer.go), the finalize entrypoint that inlines an older     *)
(* copy of the same pipeline, and the Supplier's staging helpers.          *)
(*                                                                         *)
(* The file system is the program's state.  Every directory the pipeline   *)
(* reads or writes is a variable; a directory is a function from entry     *)
(* name to entry.  External collaborators (Detector, Installer, builder,   *)
(* Manifest.StoreBuildpackMetadata) either fail or succeed; what the       *)
(* builder does to the layers directory is chosen by the environment.      *)
(***************************************************************************)
EXTENDS Integers, Sequences, FiniteSets, TLC

----------------------------------------------------------------------------
(* Bounds of the model *)

MaxLegacy == 2
MaxGroups == 2
MaxDeps == 2
MaxEntries == 2
MaxPins == 2
MaxCalls == 2

----------------------------------------------------------------------------
(* Generic helpers on functions used as directories *)

EmptyDir == [n \in {} |-> 0]

Put(d, n, v) == [m \in (DOMAIN d) \cup {n} |-> IF m = n THEN v ELSE d[m]]

Drop(d, n) == [m \in (DOMAIN d) \ {n} |-> d[m]]

\* the entries of src laid over those of dst (a copy that overwrites)
Overlay(dst, src) ==
  [m \in (DOMAIN dst) \cup (DOMAIN src) |-> IF m \in DOMAIN src THEN src[m] ELSE dst[m]]

Range(s) == {s[i] : i \in DOMAIN s}

IsPrefix(s, t) == Len(s) <= Len(t) /\ \A i \in 1..Len(s) : s[i] = t[i]

SeqsUpTo(S, n) == UNION {[1..k -> S] : k \in 0..n}

----------------------------------------------------------------------------
(* Names *)

Digit == <<"0", "1", "2", "3", "4", "5", "6", "7", "8", "9">>

RECURSIVE Itoa(_)
Itoa(i) == IF i < 10 THEN Digit[i + 1] ELSE Itoa(i \div 10) \o Digit[(i % 10) + 1]

\* fmt.Sprintf("buildpack.%d", supplyDepsIndex)
BuildpackID(i) == "buildpack." \o Itoa(i)

StackPrefix == "org.cloudfoundry.stacks."

CFStack == "cflinuxfs3"

----------------------------------------------------------------------------
(* Errors are sequences of messages, outermost label first, as built by    *)
(* errors.Wrap; Nil is Go's nil error.  A file that does not decode is a   *)
(* record whose valid field is FALSE.                                      *)

Nil == <<>>

DecodeError == <<"decode error">>

IOError == <<"i/o error">>

NoOrderFound == <<"no order.toml found">>

Wrap(cause, label) == <<label>> \o cause

----------------------------------------------------------------------------
(* Order Merger *)

Groups == {<<"lang-a">>, <<"lang-b">>}

Fragments == [valid : {TRUE}, groups : SeqsUpTo(Groups, MaxGroups)]

BadFragment == [valid |-> FALSE, groups |-> <<>>]

RECURSIVE DigitsOf(_)
DigitsOf(i) == IF i < 10 THEN <<i>> ELSE Append(DigitsOf(i \div 10), i % 10)

\* byte order of the decimal strings a and b when each is followed by ".toml"
LexLess(a, b) ==
  LET common == IF Len(a) < Len(b) THEN Len(a) ELSE Len(b)
      diffs  == {k \in 1..common : a[k] # b[k]}
  IN  IF diffs = {} THEN Len(a) < Len(b)
      ELSE LET k == CHOOSE d \in diffs : \A m \in diffs : d <= m IN a[k] < b[k]

\* the order in which a directory listing returns order<i>.toml
RECURSIVE Discovered(_)
Discovered(S) ==
  IF S = {} THEN <<>>
  ELSE LET first == CHOOSE i \in S : \A j \in S \ {i} : LexLess(DigitsOf(i), DigitsOf(j))
       IN  <<first>> \o Discovered(S \ {first})

parseOrderTOMLs(dir) ==
  LET names == Discovered(DOMAIN dir) IN
  IF \E i \in DOMAIN dir : ~dir[i].valid
    THEN [err |-> DecodeError, orders |-> <<>>]
    ELSE [err |-> Nil, orders |-> [k \in 1..Len(names) |-> dir[names[k]].groups]]

RECURSIVE combineOrders(_)
combineOrders(orders) ==
  IF orders = <<>> THEN <<>> ELSE Head(orders) \o combineOrders(Tail(orders))

\* result of MergeOrderTOMLs on the order directory dir when OrderMetadata holds old
MergeOrderTOMLsKeepGoing(dir, old) ==
  LET parsed == parseOrderTOMLs(dir) IN
  IF parsed.err # Nil THEN [err |-> parsed.err, orderMetadata |-> old]
  ELSE [err |-> Nil, orderMetadata |-> [exists |-> TRUE, groups |-> combineOrders(parsed.orders)]]

MergeOrderTOMLs(dir, old) ==
  LET parsed == parseOrderTOMLs(dir) IN
  IF parsed.err # Nil THEN [err |-> parsed.err, orderMetadata |-> old]
  ELSE IF Len(parsed.orders) = 0 THEN [err |-> NoOrderFound, orderMetadata |-> old]
  ELSE [err |-> Nil, orderMetadata |-> [exists |-> TRUE, groups |-> combineOrders(parsed.orders)]]

----------------------------------------------------------------------------
(* Override Engine *)

v2ToV3Dep(entry) ==
  [id            |-> entry.name,
   name          |-> entry.name,
   sha256        |-> entry.sha256,
   stacks        |-> [i \in 1..Len(entry.cf_stacks) |-> StackPrefix \o entry.cf_stacks[i]],
   uri           |-> entry.uri,
   version       |-> entry.version,
   source        |-> "",
   source_sha256 |-> ""]

\* lines 442-452: one override dependency against the descriptor's list
UpsertDepAppendOnly(deps, overrideDep) == Append(deps, overrideDep)

UpsertDepFirstOnly(deps, overrideDep) ==
  LET hits == {idx \in 1..Len(deps) :
                 deps[idx].id = overrideDep.id /\ deps[idx].version = overrideDep.version}
  IN  IF hits = {} THEN Append(deps, overrideDep)
      ELSE LET f == CHOOSE h \in hits : \A g \in hits : h <= g
           IN  [idx \in 1..Len(deps) |-> IF idx = f THEN overrideDep ELSE deps[idx]]

UpsertDepReplaceAndAppend(deps, overrideDep) ==
  Append([idx \in 1..Len(deps) |->
            IF deps[idx].id = overrideDep.id /\ deps[idx].version = overrideDep.version
              THEN overrideDep ELSE deps[idx]],
         overrideDep)

UpsertDep(deps, overrideDep) ==
  LET hit(idx) == deps[idx].id = overrideDep.id /\ deps[idx].version = overrideDep.version
      replaced == \E idx \in 1..Len(deps) : hit(idx)
  IN  IF replaced
        THEN [idx \in 1..Len(deps) |-> IF hit(idx) THEN overrideDep ELSE deps[idx]]
        ELSE Append(deps, overrideDep)

RECURSIVE UpsertDeps(_, _)
UpsertDeps(deps, entries) ==
  IF entries = <<>> THEN deps
  ELSE UpsertDeps(UpsertDep(deps, v2ToV3Dep(Head(entries))), Tail(entries))

RECURSIVE SetDefaultsIfAbsent(_, _)
SetDefaultsIfAbsent(defaults, pins) ==
  IF pins = <<>> THEN defaults
  ELSE SetDefaultsIfAbsent(
         IF Head(pins).name \in DOMAIN defaults THEN defaults
         ELSE Put(defaults, Head(pins).name, Head(pins).version),
         Tail(pins))

\* lines 433-438
RECURSIVE SetDefaults(_, _)
SetDefaults(defaults, pins) ==
  IF pins = <<>> THEN defaults
  ELSE SetDefaults(Put(defaults, Head(pins).name, Head(pins).version), Tail(pins))

\* lines 432-454 for one decoded descriptor; manifests is the iteration order of overrideMap
RECURSIVE ApplyManifests(_, _)
ApplyManifests(bpTOML, manifests) ==
  IF manifests = <<>> THEN bpTOML
  ELSE LET m == Head(manifests) IN
       ApplyManifests(
         [bpTOML EXCEPT !.default_versions = SetDefaults(@, m.default_versions),
                        !.dependencies = UpsertDeps(@, m.dependencies)],
         Tail(manifests))

\* every order in which a range over the map can visit its values
Iterations(overrideMap) ==
  LET keys == DOMAIN overrideMap
      n == Cardinality(keys)
  IN  {[k \in 1..n |-> overrideMap[p[k]]] :
         p \in {q \in [1..n -> keys] : \A a, b \in 1..n : a # b => q[a] # q[b]}}

\* updateBuildpackTOML: the possible results [err, cnbs] of applying one
\* override map to the descriptors at bpTOMLPaths, in that order
RECURSIVE updateBuildpackTOML(_, _, _)
updateBuildpackTOML(bpTOMLPaths, cnbs, overrideMap) ==
  IF bpTOMLPaths = <<>> THEN {[err |-> Nil, cnbs |-> cnbs]}
  ELSE LET path == Head(bpTOMLPaths) IN
       IF ~cnbs[path].toml.valid
         THEN {[err |-> Wrap(DecodeError, "failed to unmarshal into bpTOML"), cnbs |-> cnbs]}
         ELSE UNION {updateBuildpackTOML(Tail(bpTOMLPaths),
                        [cnbs EXCEPT ![path].toml = ApplyManifests(@, it)], overrideMap) :
                     it \in Iterations(overrideMap)}

----------------------------------------------------------------------------
(* Directory contents *)

\* an override.yml: absent, undecodable, or a map from buildpack name to manifest
NoOverride == [present |-> FALSE, valid |-> FALSE, map |-> EmptyDir]

BadOverride == [present |-> TRUE, valid |-> FALSE, map |-> EmptyDir]

OverrideYML(m) == [present |-> TRUE, valid |-> TRUE, map |-> m]

\* a directory tree: its payload, the state of its env directory, its override.yml
Tree(data, env, override) == [data |-> data, env |-> env, override |-> override]

Plain(data) == Tree(data, "none", NoOverride)

\* a layer sidecar <layer>.toml
Sidecar(build, launch, cache) == [valid |-> TRUE, build |-> build, launch |-> launch, cache |-> cache]

\* a buildpack's directory under the layers dir, the deps dir or the cache
NoLayers == [dirs |-> EmptyDir, tomls |-> EmptyDir]

NoCache == [exists |-> FALSE, bps |-> EmptyDir]

NoGroup == [exists |-> FALSE, buildpacks |-> <<>>]

Group(bps) == [exists |-> TRUE, buildpacks |-> bps]

NoOrder == [exists |-> FALSE, groups |-> <<>>]

----------------------------------------------------------------------------
(* Legacy-Buildpack Injector *)

LegacySidecarCacheable == Sidecar(TRUE, TRUE, TRUE)

\* WriteLayerMetadata: LayerMetadata{true, true, false}
LegacySidecar == Sidecar(TRUE, TRUE, FALSE)

\* RenameEnvDir on a relocated layer
RenameEnvDir(tree) == IF tree.env = "env" THEN [tree EXCEPT !.env = "env.build"] ELSE tree

\* UpdateGroupTOML: decode, prepend, encode
UpdateGroupTOMLAppend(g, buildpackID) ==
  IF ~g.exists THEN [err |-> DecodeError, group |-> g]
  ELSE [err |-> Nil, group |-> Group(Append(g.buildpacks, buildpackID))]

UpdateGroupTOML(g, buildpackID) ==
  IF ~g.exists THEN [err |-> DecodeError, group |-> g]
  ELSE [err |-> Nil, group |-> Group(<<buildpackID>> \o g.buildpacks)]

\* a file written with permission 0777
Executable(content) == [content |-> content, mode |-> "0777"]

FakeCNBBuildpackPlainScript(buildpackID) ==
  [toml |-> [valid            |-> TRUE,
             buildpack        |-> [id |-> buildpackID, name |-> buildpackID, version |-> "latest"],
             stacks           |-> <<StackPrefix \o CFStack>>,
             default_versions |-> EmptyDir,
             dependencies     |-> <<>>],
   build |-> [content |-> "#!/bin/bash", mode |-> "0666"]]

\* AddFakeCNBBuildpack: <buildpacks dir>/<id>/latest/{buildpack.toml, bin/build}
FakeCNBBuildpack(buildpackID) ==
  [toml |-> [valid            |-> TRUE,
             buildpack        |-> [id |-> buildpackID, name |-> buildpackID, version |-> "latest"],
             stacks           |-> <<StackPrefix \o CFStack>>,
             default_versions |-> EmptyDir,
             dependencies     |-> <<>>],
   build |-> Executable("#!/bin/bash")]

NoFault == [idx |-> -1, step |-> 0]

IncludeOneGroupFirst(i, st, fault) ==
  LET buildpackID == BuildpackID(i)
      upd == UpdateGroupTOML(st.group, buildpackID)
      grouped == [st EXCEPT !.group = upd.group]
      old == IF buildpackID \in DOMAIN st.layers THEN st.layers[buildpackID] ELSE NoLayers
      done == [grouped EXCEPT
                 !.v2Deps = Drop(@, i),
                 !.layers = Put(@, buildpackID,
                                [dirs |-> Put(old.dirs, "layer", RenameEnvDir(st.v2Deps[i])),
                                 tomls |-> Put(old.tomls, "layer", LegacySidecar)]),
                 !.cnbs = Put(@, buildpackID, FakeCNBBuildpack(buildpackID))]
  IN  IF upd.err # Nil THEN [st EXCEPT !.err = upd.err]
      ELSE IF fault.idx = i \/ "layer" \in DOMAIN old.dirs THEN [grouped EXCEPT !.err = IOError]
      ELSE done

\* the body of the loop of IncludePreviousV2Buildpacks for one index; st holds
\* the directories it touches, fault names the call that hits an i/o error
IncludeOne(i, st, fault) ==
  LET buildpackID == BuildpackID(i)
      hit(k) == fault.idx = i /\ fault.step = k
      old == IF buildpackID \in DOMAIN st.layers THEN st.layers[buildpackID] ELSE NoLayers
      \* MoveV2Layers: rename onto an existing layer directory fails
      moveErr == hit(1) \/ "layer" \in DOMAIN old.dirs
      moved == [st EXCEPT !.v2Deps = Drop(@, i),
                          !.layers = Put(@, buildpackID,
                                         [old EXCEPT !.dirs = Put(@, "layer", st.v2Deps[i])])]
      written == [moved EXCEPT !.layers[buildpackID].tomls = Put(@, "layer", LegacySidecar)]
      renamed == [written EXCEPT !.layers[buildpackID].dirs["layer"] = RenameEnvDir(@)]
      upd == UpdateGroupTOML(renamed.group, buildpackID)
      grouped == [renamed EXCEPT !.group = upd.group]
      faked == [grouped EXCEPT !.cnbs = Put(@, buildpackID, FakeCNBBuildpack(buildpackID))]
  IN  IF moveErr THEN [st EXCEPT !.err = IOError]
      ELSE IF hit(2) THEN [moved EXCEPT !.err = IOError]
      ELSE IF hit(3) THEN [written EXCEPT !.err = IOError]
      ELSE IF hit(4) THEN [renamed EXCEPT !.err = IOError]
      ELSE IF upd.err # Nil THEN [renamed EXCEPT !.err = upd.err]
      ELSE IF hit(5) THEN [grouped EXCEPT !.err = IOError]
      ELSE faked

\* the loop of IncludePreviousV2Buildpacks from index i down to zero
RECURSIVE IncludeLoopUp(_, _, _, _)
IncludeLoopUp(i, top, st, fault) ==
  IF i > top \/ st.err # Nil THEN st
  ELSE IF i \notin DOMAIN st.v2Deps THEN IncludeLoopUp(i + 1, top, st, fault)
  ELSE IncludeLoopUp(i + 1, top, IncludeOne(i, st, fault), fault)

RECURSIVE IncludeLoop(_, _, _)
IncludeLoop(i, st, fault) ==
  IF i < 0 \/ st.err # Nil THEN st
  ELSE IF i \notin DOMAIN st.v2Deps THEN IncludeLoop(i - 1, st, fault)
  ELSE IncludeLoop(i - 1, IncludeOne(i, st, fault), fault)

IncludePreviousV2BuildpacksAscending(myIDx, st, fault) ==
  IncludeLoopUp(0, myIDx - 1, [st EXCEPT !.v2Deps = Drop(@, myIDx)], fault)

IncludePreviousV2BuildpacksFromCurrent(myIDx, st, fault) == IncludeLoop(myIDx, st, fault)

\* IncludePreviousV2Buildpacks with DepsIndex = myIDx
IncludePreviousV2Buildpacks(myIDx, st, fault) ==
  IncludeLoop(myIDx - 1, [st EXCEPT !.v2Deps = Drop(@, myIDx)], fault)

----------------------------------------------------------------------------
(* Layer Migrator & Cache Manager *)

RealBuildpacks == {"lang-a", "lang-b"}

LegacyIDs == {BuildpackID(i) : i \in 0..MaxLegacy}

\* the names filepath.Glob can return for <dir>/*, in the order it returns them
SortedNames == [k \in 1..(MaxLegacy + 1) |-> BuildpackID(k - 1)] \o <<"config", "lang-a", "lang-b">>

SortedLayers == <<"layer", "x", "y">>

Glob(names) == SelectSeq(SortedNames, LAMBDA n : n \in names)

GlobTOML(bp) == SelectSeq(SortedLayers, LAMBDA n : n \in DOMAIN bp.tomls)

\* the two trees merged bp by bp, entries of src replacing those of dst
OverlayLayers(dst, src) ==
  [b \in (DOMAIN dst) \cup (DOMAIN src) |->
     IF b \notin DOMAIN src THEN dst[b]
     ELSE IF b \notin DOMAIN dst THEN src[b]
     ELSE [dirs |-> Overlay(dst[b].dirs, src[b].dirs), tomls |-> Overlay(dst[b].tomls, src[b].tomls)]]

\* libbuildpack.MoveDirectory(cnbCache, V3LayersDir): the cache root moved wholesale
MoveDirectory(c, l) == [err |-> Nil, cache |-> NoCache, layers |-> OverlayLayers(l, c.bps)]

RestoreV3CacheByCopy(c, l) ==
  IF c.exists THEN [err |-> Nil, cache |-> c, layers |-> OverlayLayers(l, c.bps)]
  ELSE [err |-> Nil, cache |-> c, layers |-> l]

RestoreV3Cache(c, l) ==
  IF c.exists THEN MoveDirectory(c, l)
  ELSE [err |-> Nil, cache |-> c, layers |-> l]

\* cacheLayer(v3Path, layersName, layerName) on the migration state m
cacheLayer(m, layersName, layerName) ==
  LET src == m.layers[layersName]
      old == IF layersName \in DOMAIN m.cache.bps THEN m.cache.bps[layersName] ELSE NoLayers
      made == IF layerName \in DOMAIN old.dirs THEN old.dirs ELSE Put(old.dirs, layerName, Plain(""))
      withToml == [dirs |-> made, tomls |-> Put(old.tomls, layerName, src.tomls[layerName])]
      withDir == [withToml EXCEPT !.dirs = Put(@, layerName, src.dirs[layerName])]
  IN  IF layerName \notin DOMAIN src.dirs
        THEN [m EXCEPT !.err = IOError,
                       !.cache = [exists |-> TRUE, bps |-> Put(m.cache.bps, layersName, withToml)]]
        ELSE [m EXCEPT !.cache = [exists |-> TRUE, bps |-> Put(m.cache.bps, layersName, withDir)]]

\* lines 380-395 of moveV3Layer: the sidecars of one buildpack, in Glob order
RECURSIVE CacheLoopAll(_, _, _)
CacheLoopAll(tomls, m, layersName) ==
  IF tomls = <<>> \/ m.err # Nil THEN m
  ELSE LET decodedToml == m.layers[layersName].tomls[Head(tomls)] IN
       IF ~decodedToml.valid THEN [m EXCEPT !.err = DecodeError]
       ELSE CacheLoopAll(Tail(tomls), cacheLayer(m, layersName, Head(tomls)), layersName)

RECURSIVE CacheLoop(_, _, _)
CacheLoop(tomls, m, layersName) ==
  IF tomls = <<>> \/ m.err # Nil THEN m
  ELSE LET decodedToml == m.layers[layersName].tomls[Head(tomls)] IN
       IF ~decodedToml.valid THEN [m EXCEPT !.err = DecodeError]
       ELSE IF decodedToml.cache
         THEN CacheLoop(Tail(tomls), cacheLayer(m, layersName, Head(tomls)), layersName)
         ELSE CacheLoop(Tail(tomls), m, layersName)

moveV3LayerCacheWhole(m, layersName) ==
  [m EXCEPT !.cache = [exists |-> TRUE, bps |-> Put(m.cache.bps, layersName, m.layers[layersName])],
            !.depsLayout = OverlayLayers(@, [b \in {layersName} |-> m.layers[layersName]])]

moveV3Layer(m, layersName) ==
  LET cached == CacheLoop(GlobTOML(m.layers[layersName]), m, layersName) IN
  IF cached.err # Nil THEN cached
  ELSE [cached EXCEPT !.depsLayout =
          OverlayLayers(@, [b \in {layersName} |-> m.layers[layersName]])]

moveV3ConfigByCopy(m) ==
  IF m.layersConfig # "meta" THEN [m EXCEPT !.depsConfig = m.layersConfig, !.err = IOError]
  ELSE [m EXCEPT !.depsConfig = m.layersConfig, !.appMetadata = TRUE]

\* moveV3Config: rename config into the deps dir, copy its metadata.toml into the app
moveV3Config(m) ==
  IF m.depsConfig = "meta" THEN [m EXCEPT !.err = IOError]
  ELSE LET moved == [m EXCEPT !.depsConfig = m.layersConfig, !.layersConfig = "absent"] IN
       IF m.layersConfig # "meta" THEN [moved EXCEPT !.err = IOError]
       ELSE [moved EXCEPT !.appMetadata = TRUE]

\* the loop of MoveV3Layers over the Glob result; an i/o error hits entry number fault
RECURSIVE MoveLoop(_, _, _, _)
MoveLoop(bpLayers, k, m, fault) ==
  IF k > Len(bpLayers) \/ m.err # Nil THEN m
  ELSE IF k = fault THEN [m EXCEPT !.err = IOError]
  ELSE IF bpLayers[k] = "config" THEN MoveLoop(bpLayers, k + 1, moveV3Config(m), fault)
  ELSE MoveLoop(bpLayers, k + 1, moveV3Layer(m, bpLayers[k]), fault)

LayerEntries(m) ==
  Glob((DOMAIN m.layers) \cup (IF m.layersConfig = "absent" THEN {} ELSE {"config"}))

MoveV3Layers(m, fault) == MoveLoop(LayerEntries(m), 1, m, fault)

----------------------------------------------------------------------------
(* External lifecycle builder (RunLifeycleBuild): what it may leave in the *)
(* layers directory.  Each layer slot of a buildpack of the group is kept, *)
(* removed or produced anew with a sidecar; layers of buildpacks outside   *)
(* the group are kept or evicted; sidecars of injected layers may be       *)
(* rewritten.                                                              *)

BuiltLayers == {"x", "y"}

SlotOptions == {"keep", "remove", "cache", "nocache", "nosidecar"}

BuildSlot(bp, layer, option) ==
  IF option = "keep" THEN bp
  ELSE IF option = "remove" THEN [dirs |-> Drop(bp.dirs, layer), tomls |-> Drop(bp.tomls, layer)]
  ELSE [dirs  |-> Put(bp.dirs, layer, Plain("new")),
        tomls |-> IF option = "nosidecar" THEN Drop(bp.tomls, layer)
                  ELSE Put(bp.tomls, layer, Sidecar(FALSE, TRUE, option = "cache"))]

BuildResult(l, g, choice, evict, rewrite) ==
  LET built == {b \in RealBuildpacks : g.exists /\ b \in Range(g.buildpacks)}
      kept == {b \in DOMAIN l : b \in built \/ b \in LegacyIDs \/ ~evict}
      tree(b) == IF b \in DOMAIN l THEN l[b] ELSE NoLayers
      out(b) ==
        IF b \in built THEN BuildSlot(BuildSlot(tree(b), "x", choice["x"]), "y", choice["y"])
        ELSE IF b \in LegacyIDs /\ rewrite
          THEN [tree(b) EXCEPT !.tomls = [n \in DOMAIN @ |-> [@[n] EXCEPT !.cache = TRUE]]]
        ELSE tree(b)
      all == [b \in kept \cup built |-> out(b)]
  IN  [b \in {c \in DOMAIN all : all[c] # NoLayers} |-> all[b]]

----------------------------------------------------------------------------
(* State *)

VARIABLES
  pc,            \* the statement of Finalize (or of the entrypoint) to run next
  err,           \* the error the run returned, Nil while none
  trace,         \* the phases this run has started, in order
  pre,           \* the file system as it was when the last phase started
  depsIndex,     \* DepsIndex, as an integer
  v2App,         \* V2AppDir: "marker" (the Supplier's symlink), "absent" or a content
  v3App,         \* V3AppDir: "absent" or a content; "app" is the pushed app with its
                 \* .cloudfoundry sentinel, "source" the pushed app as it arrived
  appMetadata,   \* <V2AppDir>/.cloudfoundry/metadata.toml exists
  orderDir,      \* OrderDir: deps index -> order fragment order<index>.toml
  orderMetadata, \* OrderMetadata
  group,         \* GroupMetadata
  plan,          \* PlanMetadata exists
  v2Deps,        \* <V2DepsDir>/<index>: the output of the legacy buildpacks
  depsLayout,    \* <V2DepsDir>/<buildpack name>: migrated layers
  depsConfig,    \* <V2DepsDir>/config: "absent", "empty" or "meta"
  launcher,      \* <V3LauncherDir>/launcher exists
  cnbs,          \* V3BuildpacksDir: buildpack id -> its buildpack.toml and bin/build
  layers,        \* V3LayersDir: buildpack name -> layer directories and sidecars
  layersConfig,  \* <V3LayersDir>/config: "absent", "empty" or "meta"
  cache,         \* <V2CacheDir>/cnb
  stored,        \* Manifest.StoreBuildpackMetadata has written to V2CacheDir
  lifecycle,     \* the binaries in V3LifecycleDir
  profile,       \* <ProfileDir>/0_shim.sh exists
  detectCalls,   \* calls of Detector.RunLifecycleDetect in this run
  prior,         \* the durable cache as the earlier build left it
  exitCode,      \* the status the entrypoint passed to os.Exit, -1 while running
  defers         \* the deferred calls the entrypoint's finalize has registered

ctl == <<pc, err, trace, pre>>

appVars == <<v2App, v3App, appMetadata>>

orderVars == <<orderDir, orderMetadata>>

metaVars == <<group, plan>>

depsVars == <<v2Deps, depsLayout, depsConfig, launcher>>

layerVars == <<layers, layersConfig>>

cacheVars == <<cache, stored>>

miscVars == <<depsIndex, lifecycle, profile, prior, exitCode, defers>>

vars == <<ctl, appVars, orderVars, metaVars, depsVars, cnbs, layerVars, cacheVars, miscVars, detectCalls>>

\* the staging directories and the durable cache
FS ==
  [v2App |-> v2App, v3App |-> v3App, appMetadata |-> appMetadata,
   orderDir |-> orderDir, orderMetadata |-> orderMetadata, group |-> group, plan |-> plan,
   v2Deps |-> v2Deps, depsLayout |-> depsLayout, depsConfig |-> depsConfig,
   launcher |-> launcher, cnbs |-> cnbs, layers |-> layers, layersConfig |-> layersConfig,
   cache |-> cache, stored |-> stored, lifecycle |-> lifecycle, profile |-> profile]

----------------------------------------------------------------------------
(* ApplyOverrideYMLs *)

Indices == [k \in 1..(MaxLegacy + 1) |-> k - 1]

\* filepath.Glob(<V2DepsDir>/*/override.yml)
OverridePaths(deps) ==
  SelectSeq(Indices, LAMBDA i : i \in DOMAIN deps /\ deps[i].override.present)

\* lines 343-355: the possible results [err, cnbs] of the loop over the override files
RECURSIVE ApplyOverrideLoop(_, _, _, _)
ApplyOverrideLoop(overrideYMLPaths, deps, bpTOMLs, bps) ==
  IF overrideYMLPaths = <<>> THEN {[err |-> Nil, cnbs |-> bps]}
  ELSE LET overrideYML == deps[Head(overrideYMLPaths)].override IN
       IF ~overrideYML.valid
         THEN {[err |-> Wrap(DecodeError, "unable to unmarshal into overrideManifest"), cnbs |-> bps]}
         ELSE UNION {IF r.err # Nil THEN {r}
                     ELSE ApplyOverrideLoop(Tail(overrideYMLPaths), deps, bpTOMLs, r.cnbs) :
                     r \in updateBuildpackTOML(bpTOMLs, bps, overrideYML.map)}

ApplyOverrideYMLs(deps, bps) ==
  ApplyOverrideLoop(OverridePaths(deps), deps, Glob(DOMAIN bps), bps)

----------------------------------------------------------------------------
(* The phases of the pipeline.  Each takes the statement that follows it   *)
(* and the statement a failure leads to.                                   *)

Enter(phase) == trace' = Append(trace, phase) /\ pre' = FS

\* os.RemoveAll(f.V2AppDir)
DoRemoveStaleAppMarker(ok, ko) ==
  /\ \E fault \in BOOLEAN :
       IF fault
         THEN pc' = ko /\ err' = Wrap(IOError, "failed to remove error file") /\ v2App' = v2App
         ELSE pc' = ok /\ err' = err /\ v2App' = "absent"
  /\ UNCHANGED <<v3App, appMetadata, orderVars, metaVars, depsVars, cnbs, layerVars,
                 cacheVars, miscVars, detectCalls>>

DoMergeOrder(ok, ko) ==
  /\ LET r == MergeOrderTOMLs(orderDir, orderMetadata) IN
       /\ orderMetadata' = r.orderMetadata
       /\ IF r.err # Nil
            THEN pc' = ko /\ err' = Wrap(r.err, "failed to merge order metadata")
            ELSE pc' = ok /\ err' = err
  /\ UNCHANGED <<appVars, orderDir, metaVars, depsVars, cnbs, layerVars, cacheVars,
                 miscVars, detectCalls>>

DoApplyOverrides(ok, ko) ==
  /\ \E r \in ApplyOverrideYMLs(v2Deps, cnbs) :
       /\ cnbs' = r.cnbs
       /\ IF r.err # Nil
            THEN pc' = ko /\ err' = Wrap(r.err, "unable to apply OverrideYML")
            ELSE pc' = ok /\ err' = err
  /\ UNCHANGED <<appVars, orderVars, metaVars, depsVars, layerVars, cacheVars,
                 miscVars, detectCalls>>

\* Detector.RunLifecycleDetect: fails, or selects a group of the merged order
RunLifecycleDetect(ok, ko) ==
  /\ detectCalls' = detectCalls + 1
  /\ \/ /\ pc' = ko /\ err' = Wrap(<<"detect failed">>, "failed to run V3 detect")
        /\ UNCHANGED metaVars
     \/ /\ orderMetadata.exists
        /\ \E g \in Range(orderMetadata.groups) : group' = Group(g)
        /\ plan' = TRUE
        /\ pc' = ok /\ err' = err

RunV3DetectAlways(ok, ko) ==
  /\ RunLifecycleDetect(ok, ko)
  /\ UNCHANGED <<appVars, orderVars, depsVars, cnbs, layerVars, cacheVars, miscVars>>

RunV3Detect(ok, ko) ==
  /\ IF ~group.exists \/ ~plan
       THEN RunLifecycleDetect(ok, ko)
       ELSE pc' = ok /\ err' = err /\ UNCHANGED <<metaVars, detectCalls>>
  /\ UNCHANGED <<appVars, orderVars, depsVars, cnbs, layerVars, cacheVars, miscVars>>

InjectionFaults ==
  {NoFault} \cup [idx : {i \in DOMAIN v2Deps : i < depsIndex}, step : 1..5]

DoInjectLegacyBuildpacks(ok, ko) ==
  /\ \E fault \in InjectionFaults :
       LET st == [err |-> Nil, v2Deps |-> v2Deps, layers |-> layers, group |-> group, cnbs |-> cnbs]
           r == IncludePreviousV2Buildpacks(depsIndex, st, fault)
       IN  /\ v2Deps' = r.v2Deps /\ layers' = r.layers /\ group' = r.group /\ cnbs' = r.cnbs
           /\ IF r.err # Nil
                THEN pc' = ko /\ err' = Wrap(r.err, "failed to include previous v2 buildpacks")
                ELSE pc' = ok /\ err' = err
  /\ UNCHANGED <<appVars, orderVars, plan, depsLayout, depsConfig, launcher, layersConfig,
                 cacheVars, miscVars, detectCalls>>

\* f.Installer.InstallLifecycle(f.V3LifecycleDir)
DoInstallLifecycle(ok, ko) ==
  /\ \/ pc' = ko /\ err' = Wrap(<<"install failed">>, "failed to install builder")
        /\ lifecycle' = lifecycle
     \/ pc' = ok /\ err' = err /\ lifecycle' = {"detector", "builder", "launcher"}
  /\ UNCHANGED <<appVars, orderVars, metaVars, depsVars, cnbs, layerVars, cacheVars,
                 depsIndex, profile, prior, exitCode, defers, detectCalls>>

DoRestoreCache(ok, ko) ==
  /\ LET r == RestoreV3Cache(cache, layers) IN
       /\ cache' = r.cache /\ layers' = r.layers
       /\ IF r.err # Nil
            THEN pc' = ko /\ err' = Wrap(r.err, "failed to restore v3 cache")
            ELSE pc' = ok /\ err' = err
  /\ UNCHANGED <<appVars, orderVars, metaVars, depsVars, cnbs, layersConfig, stored,
                 miscVars, detectCalls>>

\* RunLifeycleBuild: exec of <V3LifecycleDir>/builder
DoRunBuild(ok, ko) ==
  /\ \/ /\ pc' = ko /\ err' = Wrap(<<"exit status 1">>, "failed to run v3 lifecycle builder")
        /\ UNCHANGED layerVars
     \/ /\ "builder" \in lifecycle
        /\ pc' = ok /\ err' = err
        /\ \E choice \in [BuiltLayers -> SlotOptions], evict, rewrite \in BOOLEAN :
             layers' = BuildResult(layers, group, choice, evict, rewrite)
        /\ layersConfig' \in {"absent", "meta"}
  /\ UNCHANGED <<appVars, orderVars, metaVars, depsVars, cnbs, cacheVars, miscVars, detectCalls>>

\* os.Rename(<V3LifecycleDir>/launcher, <V3LauncherDir>/launcher)
DoInstallLauncher(ok, ko) ==
  /\ \E fault \in BOOLEAN :
       IF fault \/ "launcher" \notin lifecycle
         THEN /\ pc' = ko /\ err' = Wrap(IOError, "failed to move launcher")
              /\ UNCHANGED <<launcher, lifecycle>>
         ELSE /\ pc' = ok /\ err' = err
              /\ launcher' = TRUE /\ lifecycle' = lifecycle \ {"launcher"}
  /\ UNCHANGED <<appVars, orderVars, metaVars, v2Deps, depsLayout, depsConfig, cnbs,
                 layerVars, cacheVars, depsIndex, profile, prior, exitCode, defers, detectCalls>>

\* os.Rename(f.V3AppDir, f.V2AppDir)
DoRelocateApp(ok, ko) ==
  /\ IF v3App = "absent" \/ v2App # "absent"
       THEN pc' = ko /\ err' = Wrap(IOError, "failed to move app") /\ UNCHANGED <<v2App, v3App>>
       ELSE pc' = ok /\ err' = err /\ v2App' = v3App /\ v3App' = "absent"
  /\ UNCHANGED <<appMetadata, orderVars, metaVars, depsVars, cnbs, layerVars, cacheVars,
                 miscVars, detectCalls>>

MigrationFaults == 0..Len(LayerEntries([layers |-> layers, layersConfig |-> layersConfig]))

DoMigrateLayers(ok, ko) ==
  /\ \E fault \in MigrationFaults :
       LET m == [err |-> Nil, layers |-> layers, layersConfig |-> layersConfig,
                 depsLayout |-> depsLayout, depsConfig |-> depsConfig, cache |-> cache,
                 appMetadata |-> appMetadata]
           r == MoveV3Layers(m, fault)
       IN  /\ layers' = r.layers /\ layersConfig' = r.layersConfig
           /\ depsLayout' = r.depsLayout /\ depsConfig' = r.depsConfig
           /\ cache' = r.cache /\ appMetadata' = r.appMetadata
           /\ IF r.err # Nil
                THEN pc' = ko /\ err' = Wrap(r.err, "failed to move V3 dependencies")
                ELSE pc' = ok /\ err' = err
  /\ UNCHANGED <<v2App, v3App, orderVars, metaVars, v2Deps, launcher, cnbs, stored,
                 miscVars, detectCalls>>

DoPersistManifestMetadataUnchecked(ok, ko) ==
  /\ pc' = ok /\ err' = err
  /\ stored' \in {stored, TRUE}
  /\ UNCHANGED <<appVars, orderVars, metaVars, depsVars, cnbs, layerVars, cache, miscVars,
                 detectCalls>>

\* f.Manifest.StoreBuildpackMetadata(f.V2CacheDir), its error returned unwrapped
DoPersistManifestMetadata(ok, ko) ==
  /\ \/ pc' = ko /\ err' = <<"store metadata failed">> /\ stored' = stored
     \/ pc' = ok /\ err' = err /\ stored' = TRUE
  /\ UNCHANGED <<appVars, orderVars, metaVars, depsVars, cnbs, layerVars, cache, miscVars,
                 detectCalls>>

\* WriteProfileLaunch: ioutil.WriteFile(<ProfileDir>/0_shim.sh)
DoWriteLaunchProfile(ok, ko) ==
  /\ \/ pc' = ko /\ err' = IOError /\ profile' = profile
     \/ pc' = ok /\ err' = err /\ profile' = TRUE
  /\ UNCHANGED <<appVars, orderVars, metaVars, depsVars, cnbs, layerVars, cacheVars,
                 depsIndex, lifecycle, prior, exitCode, defers, detectCalls>>

----------------------------------------------------------------------------
(* Finalizer.Finalize *)

PhaseOrder ==
  <<"RemoveStaleAppMarker", "MergeOrder", "ApplyOverrides", "RunDetectIfNeeded",
    "InjectLegacyBuildpacks", "InstallLifecycleBinaries", "RestoreCache", "RunBuild",
    "InstallLauncher", "RelocateApp", "MigrateLayers", "PersistManifestMetadata",
    "WriteLaunchProfile">>

RemoveStaleAppMarker ==
  /\ pc = "RemoveStaleAppMarker" /\ Enter("RemoveStaleAppMarker")
  /\ DoRemoveStaleAppMarker("MergeOrder", "done")

MergeOrder ==
  /\ pc = "MergeOrder" /\ Enter("MergeOrder")
  /\ DoMergeOrder("ApplyOverrides", "done")

ApplyOverrides ==
  /\ pc = "ApplyOverrides" /\ Enter("ApplyOverrides")
  /\ DoApplyOverrides("RunDetectIfNeeded", "done")

RunDetectIfNeeded ==
  /\ pc = "RunDetectIfNeeded" /\ Enter("RunDetectIfNeeded")
  /\ RunV3Detect("InjectLegacyBuildpacks", "done")

InjectLegacyBuildpacks ==
  /\ pc = "InjectLegacyBuildpacks" /\ Enter("InjectLegacyBuildpacks")
  /\ DoInjectLegacyBuildpacks("InstallLifecycleBinaries", "done")

InstallLifecycleBinaries ==
  /\ pc = "InstallLifecycleBinaries" /\ Enter("InstallLifecycleBinaries")
  /\ DoInstallLifecycle("RestoreCache", "done")

RestoreCache ==
  /\ pc = "RestoreCache" /\ Enter("RestoreCache")
  /\ DoRestoreCache("RunBuild", "done")

RunBuild ==
  /\ pc = "RunBuild" /\ Enter("RunBuild")
  /\ DoRunBuild("InstallLauncher", "done")

InstallLauncher ==
  /\ pc = "InstallLauncher" /\ Enter("InstallLauncher")
  /\ DoInstallLauncher("RelocateApp", "done")

RelocateApp ==
  /\ pc = "RelocateApp" /\ Enter("RelocateApp")
  /\ DoRelocateApp("MigrateLayers", "done")

MigrateLayers ==
  /\ pc = "MigrateLayers" /\ Enter("MigrateLayers")
  /\ DoMigrateLayers("PersistManifestMetadata", "done")

PersistManifestMetadata ==
  /\ pc = "PersistManifestMetadata" /\ Enter("PersistManifestMetadata")
  /\ DoPersistManifestMetadata("WriteLaunchProfile", "done")

WriteLaunchProfile ==
  /\ pc = "WriteLaunchProfile" /\ Enter("WriteLaunchProfile")
  /\ DoWriteLaunchProfile("done", "done")

Next ==
  \/ RemoveStaleAppMarker
  \/ MergeOrder
  \/ ApplyOverrides
  \/ RunDetectIfNeeded
  \/ InjectLegacyBuildpacks
  \/ InstallLifecycleBinaries
  \/ RestoreCache
  \/ RunBuild
  \/ InstallLauncher
  \/ RelocateApp
  \/ MigrateLayers
  \/ PersistManifestMetadata
  \/ WriteLaunchProfile

----------------------------------------------------------------------------
(* The finalize entrypoint: main, finalize and exit.  finalize registers   *)
(* deferred removals while it sets up, inlines the pipeline and runs the   *)
(* deferred calls when it returns.                                         *)

AllDefers == <<"tempDir", "storedOrderDir", "v3BuildpacksDir", "metadataDir">>

\* lines 38-114: directories, manifest, installer, detector, finalizer
MainSetup ==
  /\ pc = "main.Setup" /\ Enter("Setup")
  /\ \E failure \in {"none", "TempDir", "MkdirAll", "GetBuildpackDir", "NewManifest"} :
       /\ defers' = IF failure = "TempDir" THEN <<>>
                    ELSE IF failure = "MkdirAll" THEN SubSeq(AllDefers, 1, 3)
                    ELSE AllDefers
       /\ IF failure = "none"
            THEN pc' = "main.RemoveStaleAppMarker" /\ err' = err
            ELSE pc' = "main.return" /\ err' = <<failure>>
  /\ UNCHANGED <<appVars, orderVars, metaVars, depsVars, cnbs, layerVars, cacheVars,
                 depsIndex, lifecycle, profile, prior, exitCode, detectCalls>>

MainRemoveStaleAppMarker ==
  /\ pc = "main.RemoveStaleAppMarker" /\ Enter("RemoveStaleAppMarker")
  /\ DoRemoveStaleAppMarker("main.MergeOrder", "main.return")

MainMergeOrder ==
  /\ pc = "main.MergeOrder" /\ Enter("MergeOrder")
  /\ DoMergeOrder("main.RunDetectIfNeeded", "main.return")

MainRunDetectIfNeeded ==
  /\ pc = "main.RunDetectIfNeeded" /\ Enter("RunDetectIfNeeded")
  /\ RunV3Detect("main.InjectLegacyBuildpacks", "main.return")

MainInjectLegacyBuildpacks ==
  /\ pc = "main.InjectLegacyBuildpacks" /\ Enter("InjectLegacyBuildpacks")
  /\ DoInjectLegacyBuildpacks("main.InstallBuilder", "main.return")

\* finalizer.Installer.InstallOnlyVersion(shims.V3BuilderDep, finalizer.V3LifecycleDir)
MainInstallBuilder ==
  /\ pc = "main.InstallBuilder" /\ Enter("InstallLifecycleBinaries")
  /\ \/ pc' = "main.return" /\ err' = Wrap(<<"install failed">>, "failed to install builder")
        /\ lifecycle' = lifecycle
     \/ pc' = "main.RestoreCache" /\ err' = err /\ lifecycle' = lifecycle \cup {"builder"}
  /\ UNCHANGED <<appVars, orderVars, metaVars, depsVars, cnbs, layerVars, cacheVars,
                 depsIndex, profile, prior, exitCode, defers, detectCalls>>

MainRestoreCache ==
  /\ pc = "main.RestoreCache" /\ Enter("RestoreCache")
  /\ DoRestoreCache("main.RunBuild", "main.return")

MainRunBuild ==
  /\ pc = "main.RunBuild" /\ Enter("RunBuild")
  /\ DoRunBuild("main.InstallLauncher", "main.return")

\* finalizer.Installer.InstallOnlyVersion(shims.V3LauncherDep, finalizer.V3LauncherDir)
MainInstallLauncher ==
  /\ pc = "main.InstallLauncher" /\ Enter("InstallLauncher")
  /\ \/ pc' = "main.return" /\ err' = Wrap(<<"install failed">>, "failed to install launcher")
        /\ launcher' = launcher
     \/ pc' = "main.RelocateApp" /\ err' = err /\ launcher' = TRUE
  /\ UNCHANGED <<appVars, orderVars, metaVars, v2Deps, depsLayout, depsConfig, cnbs,
                 layerVars, cacheVars, miscVars, detectCalls>>

MainRelocateApp ==
  /\ pc = "main.RelocateApp" /\ Enter("RelocateApp")
  /\ DoRelocateApp("main.MigrateLayers", "main.return")

MainMigrateLayers ==
  /\ pc = "main.MigrateLayers" /\ Enter("MigrateLayers")
  /\ DoMigrateLayers("main.PersistManifestMetadata", "main.return")

\* line 164: finalizer.Manifest.StoreBuildpackMetadata, its result not looked at
MainPersistManifestMetadata ==
  /\ pc = "main.PersistManifestMetadata" /\ Enter("PersistManifestMetadata")
  /\ pc' = "main.WriteLaunchProfile" /\ err' = err
  /\ stored' \in {stored, TRUE}
  /\ UNCHANGED <<appVars, orderVars, metaVars, depsVars, cnbs, layerVars, cache, miscVars,
                 detectCalls>>

MainWriteLaunchProfile ==
  /\ pc = "main.WriteLaunchProfile" /\ Enter("WriteLaunchProfile")
  /\ DoWriteLaunchProfile("main.return", "main.return")

\* finalize returns: the deferred os.RemoveAll calls run
MainReturn ==
  /\ pc = "main.return" /\ pc' = "main.exit"
  /\ pre' = FS /\ defers' = <<>>
  /\ IF "metadataDir" \in Range(defers)
       THEN orderMetadata' = NoOrder /\ group' = NoGroup /\ plan' = FALSE
       ELSE UNCHANGED <<orderMetadata, group, plan>>
  /\ cnbs' = IF "v3BuildpacksDir" \in Range(defers) THEN EmptyDir ELSE cnbs
  /\ orderDir' = IF "storedOrderDir" \in Range(defers) THEN EmptyDir ELSE orderDir
  /\ lifecycle' = IF "tempDir" \in Range(defers) THEN {} ELSE lifecycle
  /\ UNCHANGED <<err, trace, appVars, depsVars, layerVars, cacheVars, depsIndex, profile,
                 prior, exitCode, detectCalls>>

\* exit(err)
MainExit ==
  /\ pc = "main.exit" /\ pc' = "exited"
  /\ exitCode' = IF err = Nil THEN 0 ELSE 1
  /\ UNCHANGED <<err, trace, pre, appVars, orderVars, metaVars, depsVars, cnbs, layerVars,
                 cacheVars, depsIndex, lifecycle, profile, prior, defers, detectCalls>>

NextMain ==
  \/ MainSetup
  \/ MainRemoveStaleAppMarker
  \/ MainMergeOrder
  \/ MainRunDetectIfNeeded
  \/ MainInjectLegacyBuildpacks
  \/ MainInstallBuilder
  \/ MainRestoreCache
  \/ MainRunBuild
  \/ MainInstallLauncher
  \/ MainRelocateApp
  \/ MainMigrateLayers
  \/ MainPersistManifestMetadata
  \/ MainWriteLaunchProfile
  \/ MainReturn
  \/ MainExit

----------------------------------------------------------------------------
(* Inputs *)

Entry(v, s) == [name |-> "A", version |-> v, sha256 |-> s, uri |-> "uri", cf_stacks |-> <<CFStack>>]

Dep(v, s, stack) ==
  [id |-> "A", name |-> "A", sha256 |-> s, stacks |-> <<stack>>, uri |-> "uri", version |-> v,
   source |-> "src", source_sha256 |-> "srcsha"]

Manifest(pins, entries) == [default_versions |-> pins, dependencies |-> entries]

Pin(v) == [name |-> "A", version |-> v]

PinOf(n, v) == [name |-> n, version |-> v]

Descriptor(id, defaults, deps) ==
  [toml |-> [valid |-> TRUE, buildpack |-> [id |-> id, name |-> id, version |-> "1.0"],
             stacks |-> <<StackPrefix \o CFStack>>, default_versions |-> defaults,
             dependencies |-> deps],
   build |-> Executable("build")]

BadDescriptor(id) ==
  [toml |-> [valid |-> FALSE, buildpack |-> [id |-> id, name |-> id, version |-> "1.0"],
             stacks |-> <<>>, default_versions |-> EmptyDir, dependencies |-> <<>>],
   build |-> Executable("build")]

Fragment(gs) == [valid |-> TRUE, groups |-> gs]

CachedLayer == [dirs |-> [n \in {"x"} |-> Plain("old")], tomls |-> [n \in {"x"} |-> Sidecar(FALSE, TRUE, TRUE)]]

CachedLegacy == [dirs |-> [n \in {"layer"} |-> Plain("old")], tomls |-> [n \in {"layer"} |-> Sidecar(TRUE, TRUE, TRUE)]]

Cache(bps) == [exists |-> TRUE, bps |-> bps]

\* the state when a run starts at statement start, the inputs drawn from the given sets
InitWith(start, indexSet, depsSet, orderSet, cnbSet, cacheSet, metaSet, layerSet) ==
  /\ pc = start /\ err = Nil
  /\ trace = IF start \in Range(PhaseOrder)
               THEN SubSeq(PhaseOrder, 1, (CHOOSE k \in 1..Len(PhaseOrder) : PhaseOrder[k] = start) - 1)
               ELSE <<>>
  /\ depsIndex \in indexSet
  /\ v2Deps \in depsSet[depsIndex]
  /\ orderDir \in orderSet
  /\ cnbs \in cnbSet
  /\ cache \in cacheSet /\ prior = cache /\ exitCode = -1 /\ defers = <<>>
  /\ \E m \in metaSet : orderMetadata = m.order /\ group = m.group /\ plan = m.plan
  /\ \E l \in layerSet :
       /\ layers = l.layers /\ layersConfig = l.config /\ v2App = l.v2App /\ v3App = l.v3App
       /\ lifecycle = l.lifecycle /\ launcher = l.launcher
  /\ depsLayout = EmptyDir /\ depsConfig = "absent" /\ appMetadata = FALSE
  /\ stored = FALSE /\ profile = FALSE /\ detectCalls = 0
  /\ pre = FS

\* nothing staged in the layers directory yet: the Supplier has moved the app away
Fresh ==
  [layers |-> EmptyDir, config |-> "absent", v2App |-> "marker", v3App |-> "app",
   lifecycle |-> {}, launcher |-> FALSE]

NoMeta == [order |-> NoOrder, group |-> NoGroup, plan |-> FALSE]

\* group and plan left by an earlier detect
PriorMeta(g) == [order |-> [exists |-> TRUE, groups |-> <<g>>], group |-> Group(g), plan |-> TRUE]

\* every legacy index below the current one has output; index 0 carries an override.yml
AllLegacy(d) ==
  {[i \in 0..d |-> IF i = 0 /\ d > 0 THEN t ELSE Plain("v2out")] :
     t \in {Tree("v2out", "env", OverrideYML([k \in {"lang-a"} |->
                                    Manifest(<<Pin("1")>>, <<Entry("1", "s1")>>)])),
            Tree("v2out", "none", BadOverride)}}

Init ==
  InitWith("RemoveStaleAppMarker", 0..MaxLegacy, [d \in 0..MaxLegacy |-> AllLegacy(d)],
           {EmptyDir,
            [i \in {0} |-> Fragment(<<<<"lang-a">>>>)],
            [i \in {0, 1} |-> IF i = 0 THEN Fragment(<<<<"lang-a">>>>) ELSE Fragment(<<<<"lang-b">>>>)],
            [i \in {0} |-> BadFragment]},
           {[b \in {"lang-a"} |-> Descriptor("lang-a", EmptyDir, <<Dep("1", "s0", "other")>>)],
            [b \in {"lang-a"} |-> BadDescriptor("lang-a")]},
           {NoCache,
            Cache([b \in {"lang-a"} |-> CachedLayer]),
            Cache([b \in {"lang-a", "buildpack.0"} |-> IF b = "lang-a" THEN CachedLayer ELSE CachedLegacy])},
           {NoMeta, PriorMeta(<<"lang-b">>), [PriorMeta(<<"lang-b">>) EXCEPT !.plan = FALSE]},
           {Fresh})

Spec == Init /\ [][Next]_vars

InitMain ==
  InitWith("main.Setup", 0..MaxLegacy, [d \in 0..MaxLegacy |-> AllLegacy(d)],
           {EmptyDir,
            [i \in {0} |-> Fragment(<<<<"lang-a">>>>)],
            [i \in {0, 1} |-> IF i = 0 THEN Fragment(<<<<"lang-a">>>>) ELSE Fragment(<<<<"lang-b">>>>)]},
           {[b \in {"lang-a"} |-> Descriptor("lang-a", EmptyDir, <<Dep("1", "s0", "other")>>)]},
           {NoCache, Cache([b \in {"lang-a"} |-> CachedLayer])},
           {NoMeta, PriorMeta(<<"lang-b">>)},
           {Fresh})

SpecMain == InitMain /\ [][NextMain]_vars

----------------------------------------------------------------------------
(* MergeOrderTOMLs on its own, over every small order directory *)

FragIdx == {0, 2, 10}

OrderDirs ==
  UNION {[S -> Fragments \cup {BadFragment}] : S \in SUBSET FragIdx}

\* the app marker is already removed
Unmarked == [Fresh EXCEPT !.v2App = "absent"]

OnlyCurrent(d) == {[i \in {d} |-> Plain("v2out")]}

InitMerge ==
  InitWith("MergeOrder", {0}, [d \in {0} |-> OnlyCurrent(d)], OrderDirs, {EmptyDir}, {NoCache},
           {NoMeta, PriorMeta(<<"lang-b">>)}, {Unmarked})

NextMerge == MergeOrder

SpecMerge == InitMerge /\ [][NextMerge]_vars

----------------------------------------------------------------------------
(* ApplyOverrideYMLs on its own: two override files against two descriptors *)

Versions == {"1", "2"}

Entries == {Entry(v, s) : v \in Versions, s \in {"s1", "s2"}}

OtherStack == "io.buildpacks.stacks.bionic"

Deps == {Dep(v, "s0", st) : v \in Versions, st \in {StackPrefix \o CFStack, OtherStack}}

OneKey(m) == OverrideYML([k \in {"lang-a"} |-> m])

\* the override.yml of legacy index 0
FirstOverrides ==
  {NoOverride, BadOverride}
    \cup {OneKey(Manifest(<<>>, es)) : es \in SeqsUpTo(Entries, MaxEntries)}
    \cup {OneKey(Manifest(<<Pin(v)>>, <<>>)) : v \in Versions}

\* the override.yml of legacy index 1
SecondOverrides ==
  {NoOverride, BadOverride} \cup {OneKey(Manifest(<<>>, es)) : es \in SeqsUpTo(Entries, 1)}

OverrideDeps(d) ==
  {[i \in 0..d |-> Tree("v2out", "none", IF i = 0 THEN a ELSE IF i = 1 THEN b ELSE NoOverride)] :
     a \in FirstOverrides, b \in SecondOverrides}

OverrideCnbs ==
  {[b \in S |-> IF b = "lang-a" THEN a ELSE c] :
     S \in {{"lang-a"}, {"lang-a", "lang-b"}},
     a \in {Descriptor("lang-a", EmptyDir, ds) : ds \in SeqsUpTo(Deps, MaxDeps)}
              \cup {BadDescriptor("lang-a")},
     c \in {Descriptor("lang-b", [n \in {"A"} |-> "0"], <<>>), BadDescriptor("lang-b")}}

InitOverride ==
  InitWith("ApplyOverrides", {2}, [d \in {2} |-> OverrideDeps(d)],
           {[i \in {0} |-> Fragment(<<<<"lang-a">>>>)]}, OverrideCnbs, {NoCache},
           {[NoMeta EXCEPT !.order = [exists |-> TRUE, groups |-> <<<<"lang-a">>>>]]}, {Unmarked})

NextOverride == ApplyOverrides

SpecOverride == InitOverride /\ [][NextOverride]_vars

----------------------------------------------------------------------------
(* Default-version pins: one override file whose map holds one or two      *)
(* manifests of pins, against descriptors with and without default_versions *)

PinNames == {"A", "B"}

Pins == {PinOf(n, v) : n \in PinNames, v \in Versions}

PinManifests == {Manifest(ps, <<>>) : ps \in SeqsUpTo(Pins, MaxPins)}

PinMaps == UNION {[K -> PinManifests] : K \in {{"lang-a"}, {"lang-a", "lang-b"}}}

PinDeps(d) ==
  {[i \in 0..d |-> Tree("v2out", "none", IF i = 0 THEN OverrideYML(m) ELSE NoOverride)] :
     m \in PinMaps}

PinDefaults == UNION {[K -> {"0"}] : K \in SUBSET PinNames}

PinCnbs ==
  {[b \in {"lang-a", "lang-b"} |->
      IF b = "lang-a" THEN Descriptor("lang-a", df, <<>>)
      ELSE Descriptor("lang-b", [n \in {"B"} |-> "0"], <<>>)] : df \in PinDefaults}

InitPins ==
  InitWith("ApplyOverrides", {1}, [d \in {1} |-> PinDeps(d)],
           {[i \in {0} |-> Fragment(<<<<"lang-a">>>>)]}, PinCnbs, {NoCache},
           {[NoMeta EXCEPT !.order = [exists |-> TRUE, groups |-> <<<<"lang-a">>>>]]}, {Unmarked})

NextPins == ApplyOverrides

SpecPins == InitPins /\ [][NextPins]_vars

----------------------------------------------------------------------------
(* IncludePreviousV2Buildpacks on its own: legacy output at any subset of  *)
(* the indices up to the current one, after a detect that chose a group    *)

InjectDeps(d) ==
  UNION {[S -> {Plain("v2out"), Tree("v2out", "env", NoOverride)}] : S \in SUBSET (0..d)}

Detected(g) == [PriorMeta(g) EXCEPT !.order = [exists |-> TRUE, groups |-> <<<<"lang-a">>, g>>]]

InitInject ==
  InitWith("InjectLegacyBuildpacks", 0..MaxLegacy, [d \in 0..MaxLegacy |-> InjectDeps(d)],
           {[i \in {0} |-> Fragment(<<<<"lang-a">>, <<"lang-b">>>>)]},
           {[b \in {"lang-a"} |-> Descriptor("lang-a", EmptyDir, <<>>)]},
           {NoCache},
           {Detected(<<"lang-b">>), Detected(<<"lang-a", "lang-b">>)},
           {Unmarked})

NextInject == InjectLegacyBuildpacks

SpecInject == InitInject /\ [][NextInject]_vars

----------------------------------------------------------------------------
(* Finalize run again on the same directories after a failed attempt *)

Retry ==
  /\ pc = "done" /\ err # Nil
  /\ pc' = "RemoveStaleAppMarker" /\ err' = Nil /\ trace' = <<>> /\ pre' = FS
  /\ detectCalls' = 0
  /\ UNCHANGED <<appVars, orderVars, metaVars, depsVars, cnbs, layerVars, cacheVars, miscVars>>

InitRetry ==
  InitWith("RemoveStaleAppMarker", {MaxLegacy}, [d \in {MaxLegacy} |-> AllLegacy(d)],
           {[i \in {0} |-> Fragment(<<<<"lang-a">>, <<"lang-b">>>>)]},
           {[b \in {"lang-a"} |-> Descriptor("lang-a", EmptyDir, <<>>)]},
           {NoCache},
           {NoMeta, PriorMeta(<<"lang-b">>)},
           {Fresh})

\* RunBuild with a builder that, when it succeeds, leaves the layers
\* directory as it found it: the layers play no part in what the group holds
RunBuildNoLayers ==
  /\ RunBuild
  /\ layers' = layers /\ layersConfig' = layersConfig

NextRetry ==
  \/ RemoveStaleAppMarker
  \/ MergeOrder
  \/ ApplyOverrides
  \/ RunDetectIfNeeded
  \/ InjectLegacyBuildpacks
  \/ InstallLifecycleBinaries
  \/ RestoreCache
  \/ RunBuildNoLayers
  \/ InstallLauncher
  \/ RelocateApp
  \/ MigrateLayers
  \/ PersistManifestMetadata
  \/ WriteLaunchProfile
  \/ Retry

SpecRetry == InitRetry /\ [][NextRetry]_vars

----------------------------------------------------------------------------
(* Finalize run once more after a failed attempt, the override file of     *)
(* legacy index 0 applied by both attempts                                  *)

\* the second invocation of Finalize; the trace keeps the phases of the first
Rerun ==
  /\ pc = "done" /\ err # Nil /\ "Rerun" \notin Range(trace)
  /\ pc' = "RemoveStaleAppMarker" /\ err' = Nil /\ trace' = Append(trace, "Rerun") /\ pre' = FS
  /\ detectCalls' = 0
  /\ UNCHANGED <<appVars, orderVars, metaVars, depsVars, cnbs, layerVars, cacheVars, miscVars>>

\* the manifest under the first key of the override file
FirstManifests ==
  {Manifest(ps, es) : ps \in {<<>>, <<Pin("1")>>},
                      es \in SeqsUpTo({Entry("1", "s1"), Entry("2", "s1")}, MaxEntries)}

\* the manifest under a second key of the same file
SecondManifests ==
  {Manifest(<<>>, <<>>), Manifest(<<Pin("2")>>, <<>>), Manifest(<<>>, <<Entry("1", "s2")>>)}

ReapplyOverrides ==
  {OneKey(m) : m \in FirstManifests}
    \cup {OverrideYML([k \in {"lang-a", "lang-b"} |-> IF k = "lang-a" THEN a ELSE b]) :
            a \in FirstManifests, b \in SecondManifests}

ReapplyDeps(d) ==
  {[i \in 0..d |-> IF i = 0 THEN Tree("v2out", "none", o) ELSE Plain("v2out")] :
     o \in ReapplyOverrides}

ReapplyCnbs ==
  {[b \in {"lang-a"} |-> Descriptor("lang-a", EmptyDir, ds)] :
     ds \in {<<>>, <<Dep("1", "s0", OtherStack), Dep("1", "s0", StackPrefix \o CFStack)>>}}

InitReapply ==
  InitWith("RemoveStaleAppMarker", {1}, [d \in {1} |-> ReapplyDeps(d)],
           {[i \in {0} |-> Fragment(<<<<"lang-a">>>>)]}, ReapplyCnbs, {NoCache}, {NoMeta}, {Fresh})

NextReapply ==
  \/ RemoveStaleAppMarker
  \/ MergeOrder
  \/ ApplyOverrides
  \/ RunDetectIfNeeded
  \/ InjectLegacyBuildpacks
  \/ InstallLifecycleBinaries
  \/ RestoreCache
  \/ RunBuildNoLayers
  \/ InstallLauncher
  \/ RelocateApp
  \/ MigrateLayers
  \/ PersistManifestMetadata
  \/ WriteLaunchProfile
  \/ Rerun

SpecReapply == InitReapply /\ [][NextReapply]_vars

----------------------------------------------------------------------------
(* The Supplier hands the app over, Finalize takes it back *)

\* os.MkdirAll(<V3AppDir>/.cloudfoundry): needs a directory to descend into
MkdirCloudfoundry(content) ==
  IF content \in {"marker", "absent"} THEN [err |-> IOError, content |-> content]
  ELSE [err |-> Nil, content |-> IF content = "source" THEN "source/.cloudfoundry" ELSE content]

\* ioutil.WriteFile(<V3AppDir>/.cloudfoundry/<SENTINEL>)
WriteSentinel(content) ==
  IF content \in {"source/.cloudfoundry", "app"} THEN [err |-> Nil, content |-> "app"]
  ELSE [err |-> IOError, content |-> content]

v3symlinkNever(path, fault) ==
  [exists |-> FALSE, err |-> IF fault = 1 \/ path = "absent" THEN IOError ELSE Nil]

\* os.Lstat fails on a missing path
v3symlinkExists(path, fault) ==
  IF fault = 1 \/ path = "absent" THEN [exists |-> FALSE, err |-> IOError]
  ELSE [exists |-> path = "marker", err |-> Nil]

\* the result [err, v2App, v3App] of moving source onto destination
moveContent(source, destination, fault) ==
  IF fault = 2 THEN [err |-> IOError, v2App |-> source, v3App |-> destination]
  ELSE IF fault = 3 \/ source = "absent" THEN [err |-> IOError, v2App |-> source, v3App |-> "absent"]
  ELSE [err |-> Nil, v2App |-> "absent", v3App |-> source]

\* one call; fault names the system call that hits an i/o error (0: none)
SetUpFirstV3Buildpack(a, fault) ==
  LET found == v3symlinkExists(a.v2App, fault)
      moved == moveContent(a.v2App, a.v3App, fault)
      linked == [moved EXCEPT !.v2App = "marker"]
      made == MkdirCloudfoundry(linked.v3App)
      written == WriteSentinel(made.content)
  IN  IF found.err # Nil THEN [err |-> found.err, v2App |-> a.v2App, v3App |-> a.v3App]
      ELSE IF found.exists THEN [err |-> Nil, v2App |-> a.v2App, v3App |-> a.v3App]
      ELSE IF moved.err # Nil THEN moved
      ELSE IF fault = 4 THEN [moved EXCEPT !.err = IOError]
      ELSE IF made.err # Nil \/ fault = 5
        THEN [linked EXCEPT !.err = Wrap(IOError, "could not open the cloudfoundry dir")]
      ELSE IF written.err # Nil \/ fault = 6
        THEN [linked EXCEPT !.err = IOError, !.v3App = made.content]
      ELSE [linked EXCEPT !.v3App = written.content]

SupplyFaults == 0..6

Calls == Len(SelectSeq(trace, LAMBDA p : p = "SetUpFirstV3Buildpack"))

\* the supply of one shimmed buildpack; when it succeeds either the next
\* shimmed buildpack supplies or Finalize starts, when it fails staging ends
Supply ==
  /\ pc = "Supply" /\ Calls < MaxCalls /\ Enter("SetUpFirstV3Buildpack")
  /\ \E fault \in SupplyFaults :
       LET r == SetUpFirstV3Buildpack([v2App |-> v2App, v3App |-> v3App], fault) IN
         /\ v2App' = r.v2App /\ v3App' = r.v3App
         /\ IF r.err # Nil THEN pc' = "done" /\ err' = r.err
            ELSE pc' \in {"Supply", "RemoveStaleAppMarker"} /\ err' = err
  /\ UNCHANGED <<appMetadata, orderVars, metaVars, depsVars, cnbs, layerVars, cacheVars,
                 miscVars, detectCalls>>

\* the app as pushed, V3AppDir missing or left over from an earlier staging
Pushed == {[Fresh EXCEPT !.v2App = "source", !.v3App = old] : old \in {"absent", "stale"}}

InitHandover ==
  InitWith("Supply", {0, 1}, [d \in {0, 1} |-> AllLegacy(d)],
           {[i \in {0} |-> Fragment(<<<<"lang-a">>>>)]},
           {[b \in {"lang-a"} |-> Descriptor("lang-a", EmptyDir, <<>>)]},
           {NoCache, Cache([b \in {"lang-a"} |-> CachedLayer])},
           {NoMeta, PriorMeta(<<"lang-b">>)}, Pushed)

NextHandover ==
  \/ Supply
  \/ RemoveStaleAppMarker
  \/ MergeOrder
  \/ ApplyOverrides
  \/ RunDetectIfNeeded
  \/ InjectLegacyBuildpacks
  \/ InstallLifecycleBinaries
  \/ RestoreCache
  \/ RunBuildNoLayers
  \/ InstallLauncher
  \/ RelocateApp
  \/ MigrateLayers
  \/ PersistManifestMetadata
  \/ WriteLaunchProfile

SpecHandover == InitHandover /\ [][NextHandover]_vars

----------------------------------------------------------------------------
(* Properties of Finalizer.Finalize *)

Last == IF trace = <<>> THEN "none" ELSE trace[Len(trace)]

Ran(phase) == phase \in Range(trace)

Succeeded == pc = "done" /\ err = Nil

\* the phase whose failure produces the error e
PhaseOfError(e) ==
  CASE Head(e) = "failed to remove error file" -> "RemoveStaleAppMarker"
    [] Head(e) = "failed to merge order metadata" -> "MergeOrder"
    [] Head(e) = "unable to apply OverrideYML" -> "ApplyOverrides"
    [] Head(e) = "failed to run V3 detect" -> "RunDetectIfNeeded"
    [] Head(e) = "failed to include previous v2 buildpacks" -> "InjectLegacyBuildpacks"
    [] Head(e) = "failed to install builder" -> "InstallLifecycleBinaries"
    [] Head(e) = "failed to restore v3 cache" -> "RestoreCache"
    [] Head(e) = "failed to run v3 lifecycle builder" -> "RunBuild"
    [] Head(e) = "failed to move launcher" -> "InstallLauncher"
    [] Head(e) = "failed to move app" -> "RelocateApp"
    [] Head(e) = "failed to move V3 dependencies" -> "MigrateLayers"
    [] Head(e) = "store metadata failed" -> "PersistManifestMetadata"
    [] OTHER -> "WriteLaunchProfile"

LegacyRefs(n) == [k \in 1..n |-> BuildpackID(k - 1)]

\* C2: with legacy output at every index 0..N-1 (N >= 1, DepsIndex = N), a
\* successful IncludePreviousV2Buildpacks leaves the group as buildpack.0,
\* ..., buildpack.(N-1) followed by the detected group in its order.
C2_InjectorOrdering ==
  (/\ Last = "InjectLegacyBuildpacks" /\ err = Nil
   /\ depsIndex >= 1
   /\ \A i \in 0..(depsIndex - 1) : i \in DOMAIN pre.v2Deps)
  => group = Group(LegacyRefs(depsIndex) \o pre.group.buildpacks)

C2_Witness ==
  /\ Last = "InjectLegacyBuildpacks" /\ err = Nil /\ depsIndex = 2
  /\ {0, 1} \subseteq DOMAIN pre.v2Deps
  /\ pre.group.buildpacks = <<"lang-b">>
  /\ group.buildpacks = <<"buildpack.0", "buildpack.1", "lang-b">>

HasLayer(tree, b, n) == b \in DOMAIN tree /\ n \in DOMAIN tree[b].dirs

HasSidecar(tree, b, n) == b \in DOMAIN tree /\ n \in DOMAIN tree[b].tomls

\* the buildpack b produced layer x with cache=true and layer y with cache=false
ProducedXY(tree, b) ==
  /\ HasLayer(tree, b, "x") /\ HasSidecar(tree, b, "x")
  /\ tree[b].tomls["x"].valid /\ tree[b].tomls["x"].cache
  /\ HasLayer(tree, b, "y") /\ HasSidecar(tree, b, "y")
  /\ tree[b].tomls["y"].valid /\ ~tree[b].tomls["y"].cache

\* C5: after MoveV3Layers has migrated layers x (cache=true) and y
\* (cache=false) of one buildpack, the cache holds x (tree and sidecar) under
\* (buildpack, x), holds nothing for y, and both are in the deps layout.
C5_CacheSelectivity ==
  \A b \in DOMAIN pre.layers :
    (Last = "MigrateLayers" /\ err = Nil /\ ProducedXY(pre.layers, b))
    => /\ cache.exists
       /\ HasLayer(cache.bps, b, "x") /\ cache.bps[b].dirs["x"] = pre.layers[b].dirs["x"]
       /\ HasSidecar(cache.bps, b, "x") /\ cache.bps[b].tomls["x"] = pre.layers[b].tomls["x"]
       /\ ~HasLayer(cache.bps, b, "y") /\ ~HasSidecar(cache.bps, b, "y")
       /\ HasLayer(depsLayout, b, "x") /\ depsLayout[b].dirs["x"] = pre.layers[b].dirs["x"]
       /\ HasLayer(depsLayout, b, "y") /\ depsLayout[b].dirs["y"] = pre.layers[b].dirs["y"]

C5_Witness ==
  /\ Last = "MigrateLayers" /\ err = Nil
  /\ ProducedXY(pre.layers, "lang-a")
  /\ HasLayer(cache.bps, "lang-a", "x") /\ ~HasLayer(cache.bps, "lang-a", "y")
  /\ HasLayer(depsLayout, "lang-a", "y")

\* every entry of the cache c is in the layers tree l, directory and sidecar alike
AllRestored(c, l) ==
  \A b \in DOMAIN c.bps :
    /\ \A n \in DOMAIN c.bps[b].dirs : HasLayer(l, b, n) /\ l[b].dirs[n] = c.bps[b].dirs[n]
    /\ \A n \in DOMAIN c.bps[b].tomls : HasSidecar(l, b, n) /\ l[b].tomls[n] = c.bps[b].tomls[n]

C7_DetectOnlyIfAbsent ==
  /\ detectCalls \in {0, 1}
  /\ detectCalls = 1 => Ran("RunDetectIfNeeded")
  /\ Last = "RunDetectIfNeeded" =>
       /\ detectCalls = (IF ~pre.group.exists \/ ~pre.plan THEN 1 ELSE 0)
       /\ pre.group.exists /\ pre.plan => err = Nil /\ group = pre.group /\ plan = pre.plan
  /\ Succeeded => trace = PhaseOrder
  /\ pc # "done" => pc = PhaseOrder[Len(trace) + 1]

C7_Witness ==
  /\ Succeeded /\ detectCalls = 0 /\ trace = PhaseOrder
  /\ stored /\ profile /\ launcher /\ v2App = "app"

\* the entry (b, n) of the prior cache is in tree t exactly as it was cached
Untouched(t, b, n) ==
  /\ HasLayer(t, b, n) /\ t[b].dirs[n] = prior.bps[b].dirs[n]
  /\ HasSidecar(t, b, n) /\ t[b].tomls[n] = prior.bps[b].tomls[n]

Gone(t, b, n) == ~HasLayer(t, b, n) /\ ~HasSidecar(t, b, n)

----------------------------------------------------------------------------
(* Properties of MergeOrderTOMLs (SpecMerge) *)

\* the number of groups in the fragments discovered before the k-th
RECURSIVE Offset(_, _, _)
Offset(dir, names, k) ==
  IF k <= 1 THEN 0 ELSE Offset(dir, names, k - 1) + Len(dir[names[k - 1]].groups)

\* C3: with no fragment MergeOrderTOMLs fails with the no-fragments error
\* and leaves OrderMetadata as it was; with fragments, the merged order holds
\* the groups of every fragment, fragment after fragment in discovery order,
\* each fragment's groups in their own order, and nothing else.
C3_MergeCompleteness ==
  Last = "MergeOrder" =>
    LET dir == pre.orderDir
        names == Discovered(DOMAIN dir)
        merged == orderMetadata.groups
    IN  /\ DOMAIN dir = {} =>
             /\ err = <<"failed to merge order metadata", "no order.toml found">>
             /\ orderMetadata = pre.orderMetadata
        /\ (DOMAIN dir # {} /\ \A i \in DOMAIN dir : dir[i].valid) =>
             /\ err = Nil /\ orderMetadata.exists
             /\ Len(merged) = Offset(dir, names, Len(names) + 1)
             /\ \A k \in 1..Len(names) : \A j \in 1..Len(dir[names[k]].groups) :
                  merged[Offset(dir, names, k) + j] = dir[names[k]].groups[j]

C3_Witness ==
  /\ Last = "MergeOrder" /\ err = Nil
  /\ DOMAIN pre.orderDir = {0, 2}
  /\ pre.orderDir[0].groups = <<<<"lang-b">>, <<"lang-a">>>>
  /\ pre.orderDir[2].groups = <<<<"lang-a">>>>
  /\ orderMetadata.groups = <<<<"lang-b">>, <<"lang-a">>, <<"lang-a">>>>

----------------------------------------------------------------------------
(* Properties of ApplyOverrideYMLs (SpecOverride) *)

\* the manifest entries of the override files in the order they are applied
\* (each file of the model holds one manifest)
RECURSIVE AppliedFrom(_, _)
AppliedFrom(paths, deps) ==
  IF paths = <<>> THEN <<>>
  ELSE LET m == deps[Head(paths)].override.map IN
       (IF DOMAIN m = {} THEN <<>> ELSE m[CHOOSE k \in DOMAIN m : TRUE].dependencies)
         \o AppliedFrom(Tail(paths), deps)

Applied == AppliedFrom(OverridePaths(pre.v2Deps), pre.v2Deps)

AppliedTo(v) == SelectSeq(Applied, LAMBDA e : e.name = "A" /\ e.version = v)

Hits(deps, v) == {i \in 1..Len(deps) : deps[i].id = "A" /\ deps[i].version = v}

\* the record an override entry e turns into
Overrides(rec, e) ==
  /\ rec.id = e.name /\ rec.name = e.name /\ rec.version = e.version
  /\ rec.sha256 = e.sha256 /\ rec.uri = e.uri
  /\ rec.stacks = <<"org.cloudfoundry.stacks.cflinuxfs3">>

AppliedTwice ==
  /\ Last = "ApplyOverrides" /\ err = Nil
  /\ Len(AppliedTo("1")) = 2 /\ AppliedTo("1")[1].sha256 # AppliedTo("1")[2].sha256

\* the descriptor b holds one record for (A,1), the last applied override,
\* where the record it replaced was
OneRecordInPlace(b) ==
  LET orig == pre.cnbs[b].toml.dependencies
      final == cnbs[b].toml.dependencies
  IN  /\ Cardinality(Hits(final, "1")) = 1
      /\ \A i \in Hits(final, "1") :
           /\ Overrides(final[i], AppliedTo("1")[2])
           /\ IF Hits(orig, "1") # {} THEN i \in Hits(orig, "1") ELSE i > Len(orig)

\* an override for (A,2) on a descriptor b holding only (A,1) is appended
AppendedSecond(b) ==
  LET orig == pre.cnbs[b].toml.dependencies
      final == cnbs[b].toml.dependencies
  IN  (/\ Last = "ApplyOverrides" /\ err = Nil
       /\ Len(orig) = 1 /\ Hits(orig, "1") = {1}
       /\ Len(Applied) = 1 /\ Applied[1].version = "2")
      => /\ Len(final) = 2 /\ final[1] = orig[1]
         /\ Overrides(final[2], Applied[1])

\* C4 as claimed: an override for (A,1) applied twice with different sha256
\* leaves exactly one record for (A,1), the last applied, in place; an
\* override for (A,2) when only (A,1) exists is appended after it.
C4_Claimed ==
  \A b \in DOMAIN cnbs :
    /\ AppliedTwice => OneRecordInPlace(b)
    /\ AppendedSecond(b)

\* C4 amended: the same, for a descriptor that held at most one record for
\* (A,1) before the overrides were applied.
C4_Amended ==
  \A b \in DOMAIN cnbs :
    /\ (AppliedTwice /\ Cardinality(Hits(pre.cnbs[b].toml.dependencies, "1")) <= 1)
         => OneRecordInPlace(b)
    /\ AppendedSecond(b)

C4_Witness ==
  /\ AppliedTwice
  /\ Len(pre.cnbs["lang-a"].toml.dependencies) = 2
  /\ Hits(pre.cnbs["lang-a"].toml.dependencies, "1") = {2}
  /\ Hits(cnbs["lang-a"].toml.dependencies, "1") = {2}
  /\ cnbs["lang-a"].toml.dependencies[2].sha256 = AppliedTo("1")[2].sha256
  /\ cnbs["lang-a"].toml.dependencies[1] = pre.cnbs["lang-a"].toml.dependencies[1]

\* C9 as claimed: when ApplyOverrideYMLs fails, Finalize stops and no
\* descriptor on disk has been changed by any override.
C9_AllOrNothing ==
  (Last = "ApplyOverrides" /\ err # Nil) => pc = "done" /\ cnbs = pre.cnbs

----------------------------------------------------------------------------
(* Properties of the finalize entrypoint (SpecMain) *)

\* C8 as claimed: when a phase of the entrypoint fails, the order,
\* buildpacks, metadata, layers and app directories are, at exit, as the
\* failing phase left them, so the group and plan of the attempt remain.
C8_NoRollback ==
  (pc \in {"main.exit", "exited"} /\ err # Nil /\ Last # "Setup") =>
    /\ orderDir = pre.orderDir /\ cnbs = pre.cnbs
    /\ orderMetadata = pre.orderMetadata /\ group = pre.group /\ plan = pre.plan
    /\ layers = pre.layers /\ layersConfig = pre.layersConfig
    /\ v2App = pre.v2App /\ v3App = pre.v3App

----------------------------------------------------------------------------
(* Properties of IncludePreviousV2Buildpacks (SpecInject) *)

\* buildpack.<i> for the indices i <= top that had output when the phase started
InjectedRefs(top) ==
  LET present == SelectSeq(Indices, LAMBDA i : i <= top /\ i \in DOMAIN pre.v2Deps)
  IN  [k \in 1..Len(present) |-> BuildpackID(present[k])]

\* the output of index i is now the layer buildpack.<i>/layer
Relocated(i) ==
  /\ i \notin DOMAIN v2Deps
  /\ HasLayer(layers, BuildpackID(i), "layer")
  /\ layers[BuildpackID(i)].dirs["layer"] = RenameEnvDir(pre.v2Deps[i])

\* C11 as claimed: every index from the current one down to zero that had
\* output when injection started, the current one included, is relocated to
\* buildpack.<index>/layer and referenced in front of the group; indices
\* without output add no reference.
C11_Claimed ==
  (Last = "InjectLegacyBuildpacks" /\ err = Nil) =>
    /\ \A i \in (0..depsIndex) \cap DOMAIN pre.v2Deps : Relocated(i)
    /\ group.buildpacks = InjectedRefs(depsIndex) \o pre.group.buildpacks

\* C11 amended: the same for the indices below the current one; the output
\* of the current index is deleted, it becomes no layer and adds no reference.
C11_Amended ==
  (Last = "InjectLegacyBuildpacks" /\ err = Nil) =>
    /\ \A i \in (0..(depsIndex - 1)) \cap DOMAIN pre.v2Deps : Relocated(i)
    /\ group.buildpacks = InjectedRefs(depsIndex - 1) \o pre.group.buildpacks
    /\ depsIndex \notin DOMAIN v2Deps
    /\ BuildpackID(depsIndex) \notin DOMAIN layers
    /\ BuildpackID(depsIndex) \notin Range(group.buildpacks)

C11_Witness ==
  /\ Last = "InjectLegacyBuildpacks" /\ err = Nil /\ depsIndex = 2
  /\ DOMAIN pre.v2Deps = {0, 2}
  /\ Relocated(0) /\ v2Deps = EmptyDir
  /\ group.buildpacks = <<"buildpack.0", "lang-a", "lang-b">>

----------------------------------------------------------------------------
(* Further properties of Finalizer.Finalize (Spec) *)

\* no entry of the cache c is keyed by a buildpack.<index>
LegacyFree(c) == \A b \in DOMAIN c.bps : b \notin LegacyIDs

\* the injected layers in tree t carry the sidecar the injector wrote:
\* nothing rewrote it
SidecarsAsInjected(t) ==
  \A b \in LegacyIDs \cap DOMAIN t :
    HasSidecar(t, b, "layer") /\ t[b].tomls["layer"] = Sidecar(TRUE, TRUE, FALSE)

Synthesized(i) ==
  /\ BuildpackID(i) \in DOMAIN cnbs
  /\ cnbs[BuildpackID(i)].toml.valid
  /\ cnbs[BuildpackID(i)].toml.buildpack.id = BuildpackID(i)
  /\ cnbs[BuildpackID(i)].toml.buildpack.name = BuildpackID(i)
  /\ cnbs[BuildpackID(i)].toml.stacks = <<"org.cloudfoundry.stacks.cflinuxfs3">>
  /\ cnbs[BuildpackID(i)].build = [content |-> "#!/bin/bash", mode |-> "0777"]

\* legacy indices 0 and 1 under current index 2, fragments [[lang-a]] and [[lang-b]]
Scenario ==
  /\ depsIndex = 2
  /\ DOMAIN orderDir = {0, 1}
  /\ orderDir[0] = Fragment(<<<<"lang-a">>>>) /\ orderDir[1] = Fragment(<<<<"lang-b">>>>)

\* C13: in the scenario with group [lang-b] and a plan already on disk,
\* RunV3Detect does not call the Detector, and once injection has succeeded
\* the group is [buildpack.0, buildpack.1, lang-b] to the end of Finalize and
\* both synthesized buildpacks are on disk with an executable build script.
C13_EndToEnd ==
  /\ (Scenario /\ Last = "RunDetectIfNeeded" /\ pre.group = Group(<<"lang-b">>) /\ pre.plan) =>
       detectCalls = 0 /\ err = Nil /\ group = pre.group
  /\ (Scenario /\ Last = "InjectLegacyBuildpacks" /\ detectCalls = 0) =>
       pre.group = Group(<<"lang-b">>) /\ {0, 1} \subseteq DOMAIN pre.v2Deps
  /\ (Scenario /\ Ran("InjectLegacyBuildpacks") /\ detectCalls = 0
        /\ ~(Last = "InjectLegacyBuildpacks" /\ err # Nil)) =>
       /\ group = Group(<<"buildpack.0", "buildpack.1", "lang-b">>)
       /\ Synthesized(0) /\ Synthesized(1)

C13_Witness ==
  /\ Scenario /\ Succeeded /\ detectCalls = 0
  /\ group = Group(<<"buildpack.0", "buildpack.1", "lang-b">>)
  /\ Synthesized(0) /\ Synthesized(1)

\* C15: after a successful MoveV3Layers on a layers directory that held
\* config, config is gone from the layers directory and present in the deps
\* directory, its metadata.toml is in <app>/.cloudfoundry, and neither the
\* cache nor the migrated buildpack layers have an entry named config.
C15_ConfigMoved ==
  (Last = "MigrateLayers" /\ err = Nil /\ pre.layersConfig # "absent") =>
    /\ layersConfig = "absent"
    /\ depsConfig = pre.layersConfig /\ depsConfig = "meta"
    /\ appMetadata
    /\ "config" \notin DOMAIN cache.bps
    /\ "config" \notin DOMAIN depsLayout

C15_Witness ==
  /\ Last = "MigrateLayers" /\ err = Nil
  /\ pre.layersConfig = "meta" /\ ~pre.appMetadata /\ pre.depsConfig = "absent"
  /\ layersConfig = "absent" /\ depsConfig = "meta" /\ appMetadata
  /\ cache.exists /\ "config" \notin DOMAIN cache.bps

\* C18: a layer directory without a sidecar is copied into the deps layout
\* by a successful MoveV3Layers and gets no entry in the cache.
C18_NoSidecarNotCached ==
  (Last = "MigrateLayers" /\ err = Nil) =>
    \A b \in DOMAIN pre.layers : \A n \in DOMAIN pre.layers[b].dirs :
      ~HasSidecar(pre.layers, b, n) =>
        /\ HasLayer(depsLayout, b, n) /\ depsLayout[b].dirs[n] = pre.layers[b].dirs[n]
        /\ ~HasLayer(cache.bps, b, n) /\ ~HasSidecar(cache.bps, b, n)

C18_Witness ==
  /\ Last = "MigrateLayers" /\ err = Nil
  /\ HasLayer(pre.layers, "lang-b", "x") /\ ~HasSidecar(pre.layers, "lang-b", "x")
  /\ HasLayer(depsLayout, "lang-b", "x")
  /\ HasLayer(cache.bps, "lang-b", "y") /\ ~HasLayer(cache.bps, "lang-b", "x")

----------------------------------------------------------------------------
(* Properties of the default-version pins (SpecPins) *)

\* the manifests of the override file of legacy index 0
PinSources == Range(pre.v2Deps[0].override.map)

\* the version of the last pin for n in the manifest m
LastPinned(m, n) ==
  LET at == {k \in 1..Len(m.default_versions) : m.default_versions[k].name = n}
  IN  m.default_versions[CHOOSE k \in at : \A j \in at : j <= k].version

\* C17: after updateBuildpackTOML every pinned name is in the descriptor's
\* default_versions with a pinned version (that of the pin, the last one
\* applied if several pin the same name), whether or not the map or the
\* entry was there before, and every other entry is as it was.
C17_PinsUpserted ==
  (Last = "ApplyOverrides" /\ err = Nil) =>
    \A b \in DOMAIN cnbs : \A n \in PinNames :
      LET orig == pre.cnbs[b].toml.default_versions
          final == cnbs[b].toml.default_versions
          pinning == {m \in PinSources :
                        \E k \in 1..Len(m.default_versions) : m.default_versions[k].name = n}
      IN  /\ DOMAIN final \subseteq PinNames
          /\ pinning = {} =>
                /\ n \in DOMAIN final <=> n \in DOMAIN orig
                /\ n \in DOMAIN orig => final[n] = orig[n]
          /\ pinning # {} =>
                /\ n \in DOMAIN final
                /\ final[n] \in {LastPinned(m, n) : m \in pinning}

C17_Witness ==
  /\ Last = "ApplyOverrides" /\ err = Nil
  /\ pre.cnbs["lang-a"].toml.default_versions = EmptyDir
  /\ pre.cnbs["lang-b"].toml.default_versions = [n \in {"B"} |-> "0"]
  /\ PinSources = {Manifest(<<PinOf("A", "1"), PinOf("A", "2")>>, <<>>)}
  /\ cnbs["lang-a"].toml.default_versions = [n \in {"A"} |-> "2"]
  /\ cnbs["lang-b"].toml.default_versions = [n \in {"A", "B"} |-> IF n = "A" THEN "2" ELSE "0"]

----------------------------------------------------------------------------
(* Further properties of MergeOrderTOMLs (SpecMerge) *)

\* the indices of S, lowest first
RECURSIVE Ascending(_)
Ascending(S) ==
  IF S = {} THEN <<>>
  ELSE LET lowest == CHOOSE i \in S : \A j \in S : i <= j
       IN  <<lowest>> \o Ascending(S \ {lowest})

----------------------------------------------------------------------------
(* Further properties of the finalize entrypoint (SpecMain) *)

\* C16 as claimed: the entrypoint exits with 0 exactly when every phase
\* succeeded, the persisting of the manifest metadata included, and with 1
\* otherwise.
C16_ExitCode ==
  pc = "exited" =>
    /\ exitCode \in {0, 1}
    /\ exitCode = 0 <=> (err = Nil /\ Last = "WriteLaunchProfile" /\ stored /\ profile)

----------------------------------------------------------------------------
(* Further properties of IncludePreviousV2Buildpacks (SpecInject) *)

\* the legacy indices whose reference the phase added to the group
AddedRefs ==
  {i \in 0..MaxLegacy :
     BuildpackID(i) \in Range(group.buildpacks) \ Range(pre.group.buildpacks)}

\* C19: when IncludePreviousV2Buildpacks succeeds, every reference
\* buildpack.<index> it added has its relocated layer directory, the layer's
\* sidecar, and under buildpack.<index>/latest a synthesized buildpack.toml
\* for the current stack only and an executable bin/build.
C19_AddedRefsBacked ==
  (Last = "InjectLegacyBuildpacks" /\ err = Nil) =>
    \A i \in AddedRefs :
      /\ i \in DOMAIN pre.v2Deps /\ Relocated(i)
      /\ HasSidecar(layers, BuildpackID(i), "layer")
      /\ layers[BuildpackID(i)].tomls["layer"].valid
      /\ Synthesized(i)
      /\ cnbs[BuildpackID(i)].toml.buildpack.version = "latest"

C19_Witness ==
  /\ Last = "InjectLegacyBuildpacks" /\ err = Nil /\ depsIndex = 2
  /\ AddedRefs = {0, 1}
  /\ Relocated(0) /\ Relocated(1) /\ Synthesized(0) /\ Synthesized(1)
  /\ pre.v2Deps[1].env = "env" /\ layers["buildpack.1"].dirs["layer"].env = "env.build"

----------------------------------------------------------------------------
(* Properties of repeated Finalize attempts (SpecRetry) *)

\* how often the reference id occurs in the group
Occurrences(id) == Cardinality({k \in 1..Len(group.buildpacks) : group.buildpacks[k] = id})

\* C20: over any sequence of failed and repeated Finalize attempts the group
\* holds no buildpack.<index> reference twice.
C20_NoDuplicateRefs ==
  \A i \in 0..MaxLegacy : Occurrences(BuildpackID(i)) <= 1

C20_Witness ==
  /\ Len(trace) > 0 /\ Last = "InjectLegacyBuildpacks" /\ err = Nil
  /\ "buildpack.1" \in Range(pre.group.buildpacks) /\ 1 \notin DOMAIN pre.v2Deps
  /\ 0 \in DOMAIN pre.v2Deps
  /\ group.buildpacks = <<"buildpack.0", "buildpack.1", "lang-b">>

----------------------------------------------------------------------------
(* The frame of an override (SpecOverride) *)

\* the last applied override entry for (A, v)
LastApplied(v) == AppliedTo(v)[Len(AppliedTo(v))]

\* rec is exactly the record the entry e is translated into
ReplacedBy(rec, e) == Overrides(rec, e) /\ rec.source = "" /\ rec.source_sha256 = ""

\* the positions of the original list keep their (id, version), and a record
\* no override names is as it was
KeptInPlace(orig, final) ==
  /\ Len(final) >= Len(orig)
  /\ \A i \in 1..Len(orig) :
       /\ final[i].id = orig[i].id /\ final[i].version = orig[i].version
       /\ AppliedTo(orig[i].version) = <<>> => final[i] = orig[i]

\* every original record an override names holds the last applied entry for
\* its key; the records after the original ones are one per key that had no
\* match, each holding the last applied entry for that key
UpsertedExactly(orig, final) ==
  /\ \A i \in 1..Len(orig) :
       AppliedTo(orig[i].version) # <<>> => ReplacedBy(final[i], LastApplied(orig[i].version))
  /\ \A v \in Versions :
       Cardinality({i \in Hits(final, v) : i > Len(orig)})
         = IF AppliedTo(v) # <<>> /\ Hits(orig, v) = {} THEN 1 ELSE 0
  /\ \A i \in (Len(orig) + 1)..Len(final) :
       ReplacedBy(final[i], LastApplied(final[i].version))

\* C21: applying overrides to a descriptor never removes or reorders its
\* Dependency records and never changes a record whose (id, version) no
\* override names, whether or not the phase succeeds; on success the list is
\* the original one with every record of an overridden (id, version)
\* replaced in place (every duplicate too), followed by one appended record
\* for each overridden key that had no match.
C21_OverrideFrame ==
  Last = "ApplyOverrides" =>
    \A b \in DOMAIN cnbs :
      (pre.cnbs[b].toml.valid /\ cnbs[b].toml.valid) =>
        LET orig == pre.cnbs[b].toml.dependencies
            final == cnbs[b].toml.dependencies
        IN  /\ KeptInPlace(orig, final)
            /\ err = Nil => UpsertedExactly(orig, final)

\* a descriptor holding (A,1) twice and nothing else is overridden for (A,1)
\* and (A,2): both duplicates are replaced in place, (A,2) is appended
C21_Witness ==
  /\ Last = "ApplyOverrides" /\ err = Nil
  /\ Len(pre.cnbs["lang-a"].toml.dependencies) = 2
  /\ Hits(pre.cnbs["lang-a"].toml.dependencies, "1") = {1, 2}
  /\ pre.cnbs["lang-a"].toml.dependencies[1] # pre.cnbs["lang-a"].toml.dependencies[2]
  /\ AppliedTo("1") # <<>> /\ AppliedTo("2") # <<>>
  /\ Len(cnbs["lang-a"].toml.dependencies) = 3
  /\ Hits(cnbs["lang-a"].toml.dependencies, "1") = {1, 2}
  /\ cnbs["lang-a"].toml.dependencies[1] = cnbs["lang-a"].toml.dependencies[2]
  /\ cnbs["lang-a"].toml.dependencies[3].version = "2"

----------------------------------------------------------------------------
(* Properties of a repeated override application (SpecReapply) *)

\* no two dependency entries of the override file share (name, version) and
\* no two of its pins share a name
SingleEntryPerKey(map) ==
  /\ \A k1, k2 \in DOMAIN map :
       \A i \in DOMAIN map[k1].dependencies, j \in DOMAIN map[k2].dependencies :
         (/\ map[k1].dependencies[i].name = map[k2].dependencies[j].name
          /\ map[k1].dependencies[i].version = map[k2].dependencies[j].version)
           => k1 = k2 /\ i = j
  /\ \A k1, k2 \in DOMAIN map :
       \A i \in DOMAIN map[k1].default_versions, j \in DOMAIN map[k2].default_versions :
         map[k1].default_versions[i].name = map[k2].default_versions[j].name
           => k1 = k2 /\ i = j

\* the second attempt has just applied the override file that the first
\* attempt applied with success before it failed in a later phase
SecondApplication ==
  /\ Last = "ApplyOverrides" /\ err = Nil /\ "Rerun" \in Range(trace)
  /\ Len(trace) > 4 /\ trace[3] = "ApplyOverrides" /\ trace[4] = "RunDetectIfNeeded"
  /\ 0 \in DOMAIN pre.v2Deps /\ pre.v2Deps[0].override.present

\* C22: when a re-run of Finalize applies a single-entry-per-key override
\* file a second time, every descriptor keeps the default_versions and the
\* dependency list the first application left.
C22_Idempotent ==
  (SecondApplication /\ SingleEntryPerKey(pre.v2Deps[0].override.map)) =>
    \A b \in DOMAIN cnbs :
      /\ cnbs[b].toml.default_versions = pre.cnbs[b].toml.default_versions
      /\ cnbs[b].toml.dependencies = pre.cnbs[b].toml.dependencies

\* the first application replaced both (A,1) records, appended (A,2) and
\* pinned A; the second application leaves all of it as it was
C22_Witness ==
  /\ SecondApplication /\ SingleEntryPerKey(pre.v2Deps[0].override.map)
  /\ DOMAIN pre.v2Deps[0].override.map = {"lang-a", "lang-b"}
  /\ Len(pre.v2Deps[0].override.map["lang-a"].dependencies) = 2
  /\ Len(pre.cnbs["lang-a"].toml.dependencies) = 3
  /\ pre.cnbs["lang-a"].toml.dependencies[1].sha256 = "s1"
  /\ pre.cnbs["lang-a"].toml.dependencies[2].sha256 = "s1"
  /\ pre.cnbs["lang-a"].toml.dependencies[3].version = "2"
  /\ pre.cnbs["lang-a"].toml.default_versions = [n \in {"A"} |-> "1"]
  /\ cnbs["lang-a"].toml = pre.cnbs["lang-a"].toml

----------------------------------------------------------------------------
(* Properties of the app hand-over (SpecHandover) *)

\* C23: the first call of SetUpFirstV3Buildpack that succeeds moves the app
\* into the V3 app directory and leaves the marker at the legacy app path;
\* every later call changes nothing on disk; a Finalize that then succeeds
\* leaves the app at the legacy app path, the marker and the V3 app
\* directory gone.
C23_HandOver ==
  /\ (Last = "SetUpFirstV3Buildpack" /\ Calls = 1 /\ err = Nil) =>
       pre.v2App = "source" /\ v2App = "marker" /\ v3App = "app"
  /\ (Last = "SetUpFirstV3Buildpack" /\ Calls > 1) =>
       FS = pre /\ v2App = "marker" /\ v3App = "app"
  /\ (Calls >= 1 /\ Succeeded) => v2App = "app" /\ v3App = "absent"

\* the app went over a stale V3 app directory at the first of several calls
\* and has come back
C23_Witness ==
  /\ Calls = MaxCalls /\ Succeeded /\ Last = "WriteLaunchProfile"
  /\ v2App = "app" /\ v3App = "absent"

====
